---- MODULE Spec2Model ----
(***************************************************************************)
(* Host side of the pruss485 character device (uio_pruss.c): the session   *)
(* mutex, the interrupt handler and its completion, the write transaction, *)
(* and the control commands that act on the PRU shared RAM.                *)
(***************************************************************************)
EXTENDS Integers, Sequences, FiniteSets, TLC

(* ------------------------------ bounds -------------------------------- *)
\* processes that may call open() on /dev/pruss485
NumCallers == 2
\* execution contexts (threads) that share the one open file
NumCtx == 2
\* longest payload handed to write()
MaxLen == 2
\* cap on intr_completion.done (an unsigned counter in the kernel)
MaxDone == 2
\* most host events pending at once when the handler is examined alone
MaxPending == 2
\* bytes kept of the region that starts at SHRAM_READ_OFFSET
WinLen == 2

(* ------------------------- program constants -------------------------- *)
MAX_PRUSS_EVT == 8
PRU_EVTOUT == 3
PRU_ARM_INTERRUPT == 20
OLD_MESSAGE == 85
NEW_RECEIVED_MESSAGE == 0
MESSAGE_TO_SEND == 255
STATUS_OFFSET == 1
BAUD_BRGCONFIG_OFFSET == 2
BAUD_LSB_OFFSET == 3
BAUD_MSB_OFFSET == 4
SYNC_STOP_OFFSET == 5
TIMEOUT_OFFSET == 6
HW_ADDR_OFFSET == 24
MODE_OFFSET == 25
BAUD_LENGTH_OFFSET == 26
SYNC_STEP_OFFSET == 50
MODE_COUNTER_OFFSET == 80
SHRAM_WRITE_OFFSET == 100
SHRAM_READ_OFFSET == 6144
SZ_12K == 12288
TIMEOUT_SCALE == 66600
CLEAN_COUNT == 100
EINVAL == 22
EBUSY == 16
\* the characters 'M' and 'S'
CharM == 77
CharS == 83

Callers == 1 .. NumCallers
Ctx == 1 .. NumCtx
\* the context of the single-foreground scheduling model
Foreground == {1}
\* intr_bit of the eight host events: irq - hostirq_start + 2
EvtBits == 2 .. (MAX_PRUSS_EVT + 1)
\* the offsets of the shared RAM the model keeps: the header fields, the
\* outbound frame of the longest payload, and the first WinLen bytes from
\* SHRAM_READ_OFFSET
ShramTop == SHRAM_WRITE_OFFSET + 3 + MaxLen
Window == SHRAM_READ_OFFSET .. (SHRAM_READ_OFFSET + WinLen - 1)
Offsets == (0 .. ShramTop) \cup Window
\* the indexes of message[] the model keeps: its first WinLen bytes and the
\* WinLen bytes from index SHRAM_READ_OFFSET
\* the five address pins, in the order __dev_get_hw_addr samples them
AddrPins == 1 .. 5
MsgIdx == {i \in (0 .. (WinLen - 1)) \cup Window : i < SZ_12K}

VARIABLES
    locked,     \* pruchar_mutex is held
    sess,       \* sess[c]: caller c holds the open file
    openRet,    \* return value of the last dev_open
    done,       \* intr_completion.done
    hier,       \* host interrupts enabled in the INTC (HIER bits)
    pend,       \* host interrupts with a pending event (HIPIR without NOPEND)
    shram,      \* bytes of the PRU shared RAM, by offset
    pc,         \* pc[t]: position of context t in its system call
    op,         \* op[t]: the call context t is in, or has returned from
    arg,        \* arg[t]: the ioctl argument
    buf,        \* buf[t]: the payload of write()
    ret,        \* ret[t]: the value the call returned
    wlog,       \* wlog[t]: the shared-RAM writes of the call, in order
    rdMode,     \* rdMode[t]: mode byte read at line 841
    rdStatus,   \* rdStatus[t]: status byte last read at line 842
    hlast,      \* the last handler run: its intr_bit and its result
    delivered,  \* the handler released the completion since the last open
    woken,      \* woken[t]: the write of context t has stored its status byte
                \* and waits, and the handler has released a completion since
    message,    \* the driver's static message[] buffer, at the kept indexes
    gpio        \* gpio[i]: level of the i-th address pin, P8_31 .. P8_35

vars == <<locked, sess, openRet, done, hier, pend, shram, pc, op, arg, buf,
          ret, wlog, rdMode, rdStatus, hlast, delivered, woken, message, gpio>>

sessionVars == <<locked, sess, openRet>>
intcVars == <<hier, pend>>
ctxVars == <<pc, op, arg, buf, ret, wlog, rdMode, rdStatus>>

(* ------------------------------ helpers ------------------------------- *)
\* x >> n and x & 0xff on non-negative integers
Shr(x, n) == x \div (2 ^ n)
Low8(x) == x % 256

\* the payload of length n used as input: byte i is distinct per position
PayloadByte(i) == 160 + i
Payloads == { [i \in 1 .. n |-> PayloadByte(i)] : n \in 0 .. MaxLen }

\* A store to the shared RAM is a sequence of byte writes <<offset, value>>.
\* iowrite8(v, p + off)
iowrite8(off, v) == << <<off, Low8(v)>> >>

\* iowrite32(v, p + off): one 32-bit store, little-endian on the ARM host
iowrite32(off, v) ==
    << <<off, Low8(v)>>, <<off + 1, Low8(Shr(v, 8))>>,
       <<off + 2, Low8(Shr(v, 16))>>, <<off + 3, Low8(Shr(v, 24))>> >>

\* the memory after the byte writes ws, applied in order: the last write to an
\* offset decides its byte
Apply(mem, ws) ==
    [o \in DOMAIN mem |->
        LET at == {i \in 1 .. Len(ws) : ws[i][1] = o} IN
        IF at = {} THEN mem[o]
        ELSE ws[CHOOSE i \in at : \A j \in at : j <= i][2]]

RECURSIVE CopyPayload(_, _)
\* for (count = 0; count < len; count++) iowrite8(buffer[count], p + 0x64 + 4 + count)
CopyPayload(b, count) ==
    IF count >= Len(b) THEN << >>
    ELSE iowrite8(SHRAM_WRITE_OFFSET + 4 + count, b[count + 1])
         \o CopyPayload(b, count + 1)

(* --------------------- interrupt controller registers ----------------- *)
\* HIDISR: the host interrupt whose index is written is disabled
HIDISR_write(en, v) == en \ {v}
\* HIEISR: the host interrupt whose index is written is enabled
HIEISR_write(en, v) == en \cup {v}
\* SECR1: system events whose bit is written are cleared; the firmware raises
\* PRU_ARM_INTERRUPT, which the INTC routes to host interrupt PRU_EVTOUT
SECR1_write(pd, v) ==
    IF Shr(v, PRU_ARM_INTERRUPT) % 2 = 1 THEN pd \ {PRU_EVTOUT} ELSE pd

(* ------------------------------- Init --------------------------------- *)
NoCall == [t \in Ctx |-> "none"]

Init ==
    /\ locked = FALSE
    /\ sess = [c \in Callers |-> "closed"]
    /\ openRet = 0
    /\ done = 0
    /\ hier = {PRU_EVTOUT}
    /\ pend = {}
    /\ shram = [o \in Offsets |-> 0]
    /\ pc = [t \in Ctx |-> "idle"]
    /\ op = NoCall
    /\ arg = [t \in Ctx |-> 0]
    /\ buf = [t \in Ctx |-> << >>]
    /\ ret = [t \in Ctx |-> 0]
    /\ wlog = [t \in Ctx |-> << >>]
    /\ rdMode = [t \in Ctx |-> 0]
    /\ rdStatus = [t \in Ctx |-> 0]
    /\ hlast = [evt |-> 0, res |-> "never"]
    /\ delivered = FALSE
    /\ woken = [t \in Ctx |-> FALSE]
    /\ message = [i \in MsgIdx |-> 0]
    /\ gpio = [i \in AddrPins |-> 0]

(* ------------------------------ session ------------------------------- *)
\* variant: dev_open leaves the completion as it finds it
init_completion_skipped(d) == d

\* init_completion(&intr_completion): done becomes 0
init_completion(d) == 0

\* variant: the result of mutex_trylock is not tested
mutex_trylock_unchecked(held) == TRUE

\* mutex_trylock: TRUE when the mutex was free (and is now held)
mutex_trylock(held) == ~held

dev_open(c) ==
    /\ IF mutex_trylock(locked)
       THEN /\ locked' = TRUE
            /\ done' = init_completion(done)
            /\ sess' = [sess EXCEPT ![c] = "open"]
            /\ openRet' = 0
            /\ delivered' = FALSE
       ELSE /\ openRet' = -EBUSY
            /\ UNCHANGED <<locked, done, sess, delivered>>
    /\ UNCHANGED <<intcVars, shram, ctxVars, hlast, woken, message, gpio>>

\* release runs at the last fput of the file: no system call is inside it
dev_release(c) ==
    /\ sess[c] = "open"
    /\ \A t \in Ctx : pc[t] = "idle"
    /\ locked' = FALSE                        \* mutex_unlock
    /\ sess' = [sess EXCEPT ![c] = "closed"]
    /\ UNCHANGED <<openRet, done, intcVars, shram, ctxVars, hlast, delivered, woken, message, gpio>>

SessionOpen == \E c \in Callers : sess[c] = "open"

(* -------------------------- interrupt handler ------------------------- *)
\* variant: the pending state is not consulted
NotOurs_enabled_only(en, pd, intr_bit) == ~(intr_bit \in en)

\* line 127: neither enabled in HIER nor pending in HIPIR
NotOurs(en, pd, intr_bit) == ~(intr_bit \in en) /\ ~(intr_bit \in pd)

\* variant: every accepted event releases the completion
Completes_any(intr_bit) == TRUE

\* line 131: the event that releases intr_completion
Completes(intr_bit) == intr_bit = PRU_EVTOUT

\* line 136: the value written to HIDISR
DisableIndex(intr_bit) == intr_bit

\* the handler's return value for the irq of host event cnt
\* (irq = hostirq_start + cnt, intr_bit = irq - hostirq_start + 2)
HandlerResult(cnt) ==
    IF NotOurs(hier, pend, cnt + 2) THEN "IRQ_NONE" ELSE "IRQ_HANDLED"

\* variant: a release that finds no sleeper is forgotten
complete_lost(d) == d

\* complete(&intr_completion): done++
complete(d) == d + 1

pruss_handler(cnt) ==
    LET intr_bit == cnt + 2 IN
    IF HandlerResult(cnt) = "IRQ_NONE"
    THEN UNCHANGED <<done, hier, delivered, woken>>
    ELSE /\ IF Completes(intr_bit)
            THEN /\ done < MaxDone
                 /\ done' = complete(done)
                 /\ delivered' = TRUE
                 /\ woken' = [t \in Ctx |-> woken[t] \/ pc[t] = "wait"]
            ELSE UNCHANGED <<done, delivered, woken>>
         /\ hier' = HIDISR_write(hier, DisableIndex(intr_bit))

\* an interrupt of host event cnt while the device is in use
Interrupt(cnt) ==
    /\ pruss_handler(cnt)
    /\ UNCHANGED <<sessionVars, pend, shram, ctxVars, hlast, message, gpio>>

(* ---------------------------- coprocessor ----------------------------- *)
\* the firmware raises PRU_ARM_INTERRUPT: host interrupt PRU_EVTOUT is pending
pru_raise ==
    /\ PRU_EVTOUT \notin pend
    /\ pend' = pend \cup {PRU_EVTOUT}
    /\ UNCHANGED <<sessionVars, done, hier, shram, ctxVars, hlast, delivered, woken, message, gpio>>

\* the firmware writes the status byte: message consumed, or message received
pru_status(v) ==
    /\ shram[STATUS_OFFSET] # v
    /\ shram' = [shram EXCEPT ![STATUS_OFFSET] = v]
    /\ UNCHANGED <<sessionVars, done, intcVars, ctxVars, hlast, delivered, woken, message, gpio>>

\* the firmware sets the sync-stop byte that __dev_set_sync_stop clears
pru_sync_stop ==
    /\ shram[SYNC_STOP_OFFSET] = 0
    /\ shram' = [shram EXCEPT ![SYNC_STOP_OFFSET] = 1]
    /\ UNCHANGED <<sessionVars, done, intcVars, ctxVars, hlast, delivered, woken, message, gpio>>

\* the firmware stores a received byte in the region at SHRAM_READ_OFFSET
InboundBytes == {0, 165}

pru_inbound(o, v) ==
    /\ shram[o] # v
    /\ shram' = [shram EXCEPT ![o] = v]
    /\ UNCHANGED <<sessionVars, done, intcVars, ctxVars, hlast, delivered, woken, message, gpio>>

\* an address pin changes its level
gpio_level(i, v) ==
    /\ gpio[i] # v
    /\ gpio' = [gpio EXCEPT ![i] = v]
    /\ UNCHANGED <<sessionVars, done, intcVars, shram, ctxVars, hlast, delivered,
                   woken, message>>

(* ------------------------------ dev_write ----------------------------- *)
Enter(t, o, a, b) ==
    /\ SessionOpen
    /\ pc[t] = "idle"
    /\ op' = [op EXCEPT ![t] = o]
    /\ arg' = [arg EXCEPT ![t] = a]
    /\ buf' = [buf EXCEPT ![t] = b]

\* the call stores the byte writes ws
Store(t, ws) ==
    /\ shram' = Apply(shram, ws)
    /\ wlog' = [wlog EXCEPT ![t] = @ \o ws]

\* what the call returns to its caller
Return(t, v) ==
    /\ pc' = [pc EXCEPT ![t] = "done"]
    /\ ret' = [ret EXCEPT ![t] = v]

\* variant: only the low byte of the length is stored
WriteLenWord_byte(len) == iowrite8(SHRAM_WRITE_OFFSET, len)

\* line 825: the length, as a 32-bit word
WriteLenWord(len) == iowrite32(SHRAM_WRITE_OFFSET, len)

\* lines 827-828: the payload bytes
WritePayload(b) == CopyPayload(b, 0)

\* line 830
WriteStatus == iowrite8(STATUS_OFFSET, MESSAGE_TO_SEND)

\* line 839: the value written to HIEISR
EnableIndex == 2 ^ PRU_EVTOUT

\* variant: the poll ends as soon as the status is no longer message-to-send
PollDone_not_pending(status) == status # MESSAGE_TO_SEND

\* line 842: the poll ends
PollDone(status) == status = OLD_MESSAGE

\* line 841: the poll is entered
PollNeeded(mode) == mode = CharM

write_len(t, b) ==
    /\ Enter(t, "write", 0, b)
    /\ Store(t, WriteLenWord(Len(b)))
    /\ pc' = [pc EXCEPT ![t] = "copy"]
    /\ UNCHANGED <<sessionVars, done, intcVars, ret, rdMode, rdStatus, hlast, delivered, woken, message, gpio>>

write_copy(t) ==
    /\ pc[t] = "copy"
    /\ Store(t, WritePayload(buf[t]))
    /\ pc' = [pc EXCEPT ![t] = "status"]
    /\ UNCHANGED <<sessionVars, done, intcVars, op, arg, buf, ret, rdMode, rdStatus,
                   hlast, delivered, woken, message, gpio>>

write_status(t) ==
    /\ pc[t] = "status"
    /\ Store(t, WriteStatus)
    /\ pc' = [pc EXCEPT ![t] = "wait"]
    /\ UNCHANGED <<sessionVars, done, intcVars, op, arg, buf, ret, rdMode, rdStatus,
                   hlast, delivered, woken, message, gpio>>

\* variant: the wait leaves the completion for the next waiter
wait_taken_none(d) == d

\* wait_for_completion takes one completion: done--
wait_taken(d) == d - 1

\* variant: the wait gives up without a completion
WaitOver_timeout(d) == TRUE

\* wait_for_completion may return when done is not 0
WaitOver(d) == d > 0

\* line 833: wait_for_completion takes one released completion
write_wait(t) ==
    /\ pc[t] = "wait"
    /\ WaitOver(done)
    /\ done' = wait_taken(done)
    /\ pc' = [pc EXCEPT ![t] = "secr"]
    /\ woken' = [woken EXCEPT ![t] = FALSE]
    /\ UNCHANGED <<sessionVars, intcVars, shram, op, arg, buf, ret, wlog, rdMode,
                   rdStatus, hlast, delivered, message, gpio>>

\* line 836
write_secr(t) ==
    /\ pc[t] = "secr"
    /\ pend' = SECR1_write(pend, 2 ^ PRU_ARM_INTERRUPT)
    /\ pc' = [pc EXCEPT ![t] = "hieisr"]
    /\ UNCHANGED <<sessionVars, done, hier, shram, op, arg, buf, ret, wlog, rdMode,
                   rdStatus, hlast, delivered, woken, message, gpio>>

\* line 839
write_hieisr(t) ==
    /\ pc[t] = "hieisr"
    /\ hier' = HIEISR_write(hier, EnableIndex)
    /\ pc' = [pc EXCEPT ![t] = "mode"]
    /\ UNCHANGED <<sessionVars, done, pend, shram, op, arg, buf, ret, wlog, rdMode,
                   rdStatus, hlast, delivered, woken, message, gpio>>

\* line 841
write_mode(t) ==
    /\ pc[t] = "mode"
    /\ rdMode' = [rdMode EXCEPT ![t] = shram[MODE_OFFSET]]
    /\ IF PollNeeded(shram[MODE_OFFSET])
       THEN /\ pc' = [pc EXCEPT ![t] = "poll"]
            /\ UNCHANGED ret
       ELSE Return(t, Len(buf[t]))
    /\ UNCHANGED <<sessionVars, done, intcVars, shram, op, arg, buf, wlog, rdStatus,
                   hlast, delivered, woken, message, gpio>>

\* line 842: one read of the status byte by the busy loop
write_poll(t) ==
    /\ pc[t] = "poll"
    /\ rdStatus' = [rdStatus EXCEPT ![t] = shram[STATUS_OFFSET]]
    /\ IF PollDone(shram[STATUS_OFFSET])
       THEN Return(t, Len(buf[t]))
       ELSE UNCHANGED <<pc, ret>>
    /\ UNCHANGED <<sessionVars, done, intcVars, shram, op, arg, buf, wlog, rdMode,
                   hlast, delivered, woken, message, gpio>>

\* the system call is over: the context is back in user space
sys_return(t) ==
    /\ pc[t] = "done"
    /\ pc' = [pc EXCEPT ![t] = "idle"]
    /\ op' = [op EXCEPT ![t] = "none"]
    /\ arg' = [arg EXCEPT ![t] = 0]
    /\ buf' = [buf EXCEPT ![t] = << >>]
    /\ ret' = [ret EXCEPT ![t] = 0]
    /\ wlog' = [wlog EXCEPT ![t] = << >>]
    /\ rdMode' = [rdMode EXCEPT ![t] = 0]
    /\ rdStatus' = [rdStatus EXCEPT ![t] = 0]
    /\ UNCHANGED <<sessionVars, done, intcVars, shram, hlast, delivered, woken,
                   message, gpio>>

dev_write(t) ==
    \/ \E b \in Payloads : write_len(t, b)
    \/ write_copy(t)
    \/ write_status(t)
    \/ write_wait(t)
    \/ write_secr(t)
    \/ write_hieisr(t)
    \/ write_mode(t)
    \/ write_poll(t)

(* ------------------------------ dev_read ------------------------------ *)
\* ioread8(p + o), p the base of the shared RAM; a byte the model does not
\* keep is never written and reads as 0
ioread8(mem, o) == IF o \in DOMAIN mem THEN mem[o] ELSE 0

\* variant: the loop reads from p + SHRAM_READ_OFFSET + count
ReadLoop_window(mem) == [count \in MsgIdx |-> ioread8(mem, SHRAM_READ_OFFSET + count)]

\* lines 742-745: message[count] = ioread8(p + count), count < SZ_12K
ReadLoop(mem) == [count \in MsgIdx |-> ioread8(mem, count)]

\* dev_read: the loop, copy_to_user(buffer, message, count), return 0
dev_read(t) ==
    /\ Enter(t, "read", 0, << >>)
    /\ message' = ReadLoop(shram)
    /\ Return(t, 0)
    /\ UNCHANGED <<sessionVars, done, intcVars, shram, wlog, rdMode, rdStatus,
                   hlast, delivered, woken, gpio>>

(* ------------------------- dev_unlocked_ioctl ------------------------- *)
\* Each command maps the memory it finds to its byte writes and return value.
\* variant: the stop field is cleared whatever the mode
dev_set_sync_stop_any(mem) == [ws |-> iowrite8(SYNC_STOP_OFFSET, 0), ret |-> 0]

\* __dev_set_sync_stop
dev_set_sync_stop(mem) ==
    IF mem[MODE_OFFSET] # CharM
    THEN [ws |-> << >>, ret |-> -EINVAL]
    ELSE [ws |-> iowrite8(SYNC_STOP_OFFSET, 0), ret |-> 0]

\* variant: both modes store the status byte
ioctl_mode_status(mem, a) ==
    IF a = CharM \/ a = CharS
    THEN [ws |-> iowrite8(MODE_OFFSET, a) \o dev_set_sync_stop(Apply(mem, iowrite8(MODE_OFFSET, a))).ws
                   \o iowrite8(STATUS_OFFSET, OLD_MESSAGE),
          ret |-> 0]
    ELSE [ws |-> << >>, ret |-> -EINVAL]

\* case PRUSS_MODE
ioctl_mode(mem, a) ==
    IF a = CharM \/ a = CharS
    THEN LET w1 == iowrite8(MODE_OFFSET, a)
             w2 == dev_set_sync_stop(Apply(mem, w1)).ws
             w3 == IF a = CharS THEN iowrite8(STATUS_OFFSET, OLD_MESSAGE) ELSE << >>
         IN [ws |-> w1 \o w2 \o w3, ret |-> 0]
    ELSE [ws |-> << >>, ret |-> -EINVAL]

\* a control command runs from entry to return without blocking
Control(t, o, a, r) ==
    /\ Enter(t, o, a, << >>)
    /\ Store(t, r.ws)
    /\ Return(t, r.ret)
    /\ UNCHANGED <<sessionVars, done, intcVars, rdMode, rdStatus, hlast, delivered, woken, message, gpio>>

ModeArgs == {CharM, CharS, 88}

SetMode(t) == \E a \in ModeArgs : Control(t, "PRUSS_MODE", a, ioctl_mode(shram, a))

\* __dev_get_hw_addr: one bit per pin that reads non-zero
dev_get_hw_addr(pins) ==
    (IF pins[1] # 0 THEN 1 ELSE 0) + (IF pins[2] # 0 THEN 2 ELSE 0)
      + (IF pins[3] # 0 THEN 4 ELSE 0) + (IF pins[4] # 0 THEN 8 ELSE 0)
      + (IF pins[5] # 0 THEN 16 ELSE 0)

\* case PRUSS_GET_HW_ADDRESS
ioctl_get_hw_address(pins) ==
    [ws |-> iowrite8(HW_ADDR_OFFSET, dev_get_hw_addr(pins)), ret |-> 0]

GetHardwareAddress(t) ==
    Control(t, "PRUSS_GET_HW_ADDRESS", 0, ioctl_get_hw_address(gpio))

\* a C comparison as an integer
Cmp(b) == IF b THEN 1 ELSE 0

\* case PRUSS_TIMEOUT: arg = arg * 66600 in an unsigned long of 32 bits, then
\* arg & 0xff, (arg > 8) & 0xff, (arg > 16) & 0xff, (arg > 24) & 0xff
\* The product is kept as its two 16-bit halves.
Mul32(a, k) ==
    LET al == a % 65536
        ah == Shr(a, 16) % 65536
        kl == k % 65536
        kh == Shr(k, 16) % 65536
        p == al * kl
        carry == Shr(p, 16) % 65536
        cross == (((al * kh) % 65536) + ((ah * kl) % 65536)) % 65536
    IN [hi |-> (carry + cross) % 65536, lo |-> p % 65536]

\* arg > n for a 32-bit arg and n < 65536
Above(x, n) == x.hi > 0 \/ x.lo > n

ioctl_timeout(a) ==
    LET scaled == Mul32(a, TIMEOUT_SCALE) IN
    [ws |-> iowrite8(TIMEOUT_OFFSET, Low8(scaled.lo))
              \o iowrite8(TIMEOUT_OFFSET + 1, Low8(Cmp(Above(scaled, 8))))
              \o iowrite8(TIMEOUT_OFFSET + 2, Low8(Cmp(Above(scaled, 16))))
              \o iowrite8(TIMEOUT_OFFSET + 3, Low8(Cmp(Above(scaled, 24)))),
     ret |-> 0]

\* arguments of SetTimeout; 64490 * 66600 exceeds 2^32
TimeoutArgs == {0, 1, 2, 64490}

SetTimeout(t) == \E a \in TimeoutArgs : Control(t, "PRUSS_TIMEOUT", a, ioctl_timeout(a))

\* __dev_config_baudrate, the switch: the profile of a supported rate
BaudProfile(baudrate) ==
    CASE baudrate = 6 ->
           [ok |-> TRUE, brgconfig |-> 40, div_lsb |-> 2, div_msb |-> 0,
            one_byte_length_ns |-> 1667]
      [] baudrate = 10 ->
           [ok |-> TRUE, brgconfig |-> 40, div_lsb |-> 1, div_msb |-> 0,
            one_byte_length_ns |-> 1000]
      [] baudrate = 12 ->
           [ok |-> TRUE, brgconfig |-> 36, div_lsb |-> 1, div_msb |-> 0,
            one_byte_length_ns |-> 833]
      [] baudrate = 9600 ->
           [ok |-> TRUE, brgconfig |-> 10, div_lsb |-> 134, div_msb |-> 1,
            one_byte_length_ns |-> 1041666]
      [] baudrate = 14400 ->
           [ok |-> TRUE, brgconfig |-> 7, div_lsb |-> 4, div_msb |-> 1,
            one_byte_length_ns |-> 694444]
      [] baudrate = 19200 ->
           [ok |-> TRUE, brgconfig |-> 5, div_lsb |-> 195, div_msb |-> 0,
            one_byte_length_ns |-> 694444]
      [] baudrate = 38400 ->
           [ok |-> TRUE, brgconfig |-> 21, div_lsb |-> 195, div_msb |-> 0,
            one_byte_length_ns |-> 260416]
      [] baudrate = 57600 ->
           [ok |-> TRUE, brgconfig |-> 39, div_lsb |-> 4, div_msb |-> 1,
            one_byte_length_ns |-> 173611]
      [] baudrate = 115200 ->
           [ok |-> TRUE, brgconfig |-> 9, div_lsb |-> 32, div_msb |-> 0,
            one_byte_length_ns |-> 86805]
      [] OTHER ->
           [ok |-> FALSE, brgconfig |-> 0, div_lsb |-> 0, div_msb |-> 0,
            one_byte_length_ns |-> 0]

\* variant: the third byte of the byte time is shifted by 8, not 16
WriteProfile_shift8(pr) ==
    iowrite8(BAUD_BRGCONFIG_OFFSET, pr.brgconfig)
    \o iowrite8(BAUD_LSB_OFFSET, pr.div_lsb)
    \o iowrite8(BAUD_MSB_OFFSET, pr.div_msb)
    \o iowrite8(BAUD_LENGTH_OFFSET, Low8(pr.one_byte_length_ns))
    \o iowrite8(BAUD_LENGTH_OFFSET + 1, Low8(Shr(pr.one_byte_length_ns, 8)))
    \o iowrite8(BAUD_LENGTH_OFFSET + 2, Low8(Shr(pr.one_byte_length_ns, 8)))

\* lines 601-607: the six writes of a profile
WriteProfile(pr) ==
    iowrite8(BAUD_BRGCONFIG_OFFSET, pr.brgconfig)
    \o iowrite8(BAUD_LSB_OFFSET, pr.div_lsb)
    \o iowrite8(BAUD_MSB_OFFSET, pr.div_msb)
    \o iowrite8(BAUD_LENGTH_OFFSET, Low8(pr.one_byte_length_ns))
    \o iowrite8(BAUD_LENGTH_OFFSET + 1, Low8(Shr(pr.one_byte_length_ns, 8)))
    \o iowrite8(BAUD_LENGTH_OFFSET + 2, Low8(Shr(pr.one_byte_length_ns, 16)))

\* variant: the config byte is stored before the rate is validated
dev_config_baudrate_early(baudrate) ==
    LET pr == BaudProfile(baudrate) IN
    IF pr.ok THEN [ws |-> WriteProfile(pr), ret |-> 0]
    ELSE [ws |-> iowrite8(BAUD_BRGCONFIG_OFFSET, pr.brgconfig), ret |-> -EINVAL]

\* __dev_config_baudrate
dev_config_baudrate(baudrate) ==
    LET pr == BaudProfile(baudrate) IN
    IF pr.ok THEN [ws |-> WriteProfile(pr), ret |-> 0]
    ELSE [ws |-> << >>, ret |-> -EINVAL]

\* variant: the loop runs one byte further
dev_clean_sram_101 ==
    [ws |-> [count \in 1 .. (CLEAN_COUNT + 1) |-> <<count - 1, 0>>], ret |-> 0]

\* __dev_clean_sram
dev_clean_sram ==
    [ws |-> [count \in 1 .. CLEAN_COUNT |-> <<count - 1, 0>>], ret |-> 0]

\* the rates of the switch, and arguments it does not list
SupportedRates == {6, 10, 12, 9600, 14400, 19200, 38400, 57600, 115200}
BaudArgs == SupportedRates \cup {0, 7, 4800, 9601, 230400}

SetBaudRate(t) ==
    \E a \in BaudArgs : Control(t, "PRUSS_BAUDRATE", a, dev_config_baudrate(a))

Clean(t) == Control(t, "PRUSS_CLEAN", 0, dev_clean_sram)

(* --------------------------- specifications --------------------------- *)
\* one foreground context performs the transactions of the open session
Next ==
    \/ \E c \in Callers : dev_open(c)
    \/ \E c \in Callers : dev_release(c)
    \/ \E t \in Foreground : dev_write(t)
    \/ \E t \in Foreground : SetMode(t)
    \/ \E t \in Foreground : sys_return(t)
    \/ \E cnt \in 0 .. (MAX_PRUSS_EVT - 1) : Interrupt(cnt)
    \/ pru_raise
    \/ \E v \in {OLD_MESSAGE, NEW_RECEIVED_MESSAGE} : pru_status(v)

Spec == Init /\ [][Next]_vars

(* The control commands on the shared RAM, in an open session *)
NextCtl ==
    \/ \E c \in Callers : dev_open(c)
    \/ \E c \in Callers : dev_release(c)
    \/ \E t \in Foreground : SetBaudRate(t)
    \/ \E t \in Foreground : SetMode(t)
    \/ \E t \in Foreground : Clean(t)
    \/ \E t \in Foreground : sys_return(t)
    \/ pru_sync_stop

SpecCtl == Init /\ [][NextCtl]_vars

(* The handler alone, from every configuration of the interrupt controller *)

InitIrq ==
    /\ locked = FALSE
    /\ sess = [c \in Callers |-> "closed"]
    /\ openRet = 0
    /\ done = 0
    /\ hier \in SUBSET EvtBits
    /\ pend \in {s \in SUBSET EvtBits : Cardinality(s) <= MaxPending}
    /\ shram = [o \in Offsets |-> 0]
    /\ pc = [t \in Ctx |-> "idle"]
    /\ op = NoCall
    /\ arg = [t \in Ctx |-> 0]
    /\ buf = [t \in Ctx |-> << >>]
    /\ ret = [t \in Ctx |-> 0]
    /\ wlog = [t \in Ctx |-> << >>]
    /\ rdMode = [t \in Ctx |-> 0]
    /\ rdStatus = [t \in Ctx |-> 0]
    /\ hlast = [evt |-> 0, res |-> "never"]
    /\ delivered = FALSE
    /\ woken = [t \in Ctx |-> FALSE]
    /\ message = [i \in MsgIdx |-> 0]
    /\ gpio = [i \in AddrPins |-> 0]

IrqInvoke(cnt) ==
    /\ pruss_handler(cnt)
    /\ hlast' = [evt |-> cnt + 2, res |-> HandlerResult(cnt)]
    /\ UNCHANGED <<sessionVars, pend, shram, ctxVars, message, gpio>>

NextIrq == \E cnt \in 0 .. (MAX_PRUSS_EVT - 1) : IrqInvoke(cnt)

SpecIrq == InitIrq /\ [][NextIrq]_vars

(* Clean between writes and mode changes *)
NextClean ==
    \/ \E c \in Callers : dev_open(c)
    \/ \E c \in Callers : dev_release(c)
    \/ \E t \in Foreground : dev_write(t)
    \/ \E t \in Foreground : SetMode(t)
    \/ \E t \in Foreground : Clean(t)
    \/ \E t \in Foreground : sys_return(t)
    \/ Interrupt(PRU_EVTOUT - 2)
    \/ pru_raise
    \/ pru_status(OLD_MESSAGE)

SpecClean == Init /\ [][NextClean]_vars

(* The commands that store the hardware address and the timeout *)
NextAux ==
    \/ \E c \in Callers : dev_open(c)
    \/ \E c \in Callers : dev_release(c)
    \/ \E t \in Foreground : GetHardwareAddress(t)
    \/ \E t \in Foreground : SetTimeout(t)
    \/ \E t \in Foreground : sys_return(t)
    \/ \E i \in AddrPins, v \in {0, 1} : gpio_level(i, v)

SpecAux == Init /\ [][NextAux]_vars

(* read() while the firmware fills the region at SHRAM_READ_OFFSET *)
NextRead ==
    \/ \E c \in Callers : dev_open(c)
    \/ \E c \in Callers : dev_release(c)
    \/ \E t \in Foreground : dev_read(t)
    \/ \E t \in Foreground : SetMode(t)
    \/ \E t \in Foreground : sys_return(t)
    \/ \E o \in Window, v \in InboundBytes : pru_inbound(o, v)

SpecRead == Init /\ [][NextRead]_vars

(* Several contexts share the open file *)
NextShared ==
    \/ \E c \in Callers : dev_open(c)
    \/ \E c \in Callers : dev_release(c)
    \/ \E t \in Ctx : dev_write(t)
    \/ \E t \in Ctx : SetMode(t)
    \/ \E t \in Ctx : sys_return(t)
    \/ Interrupt(PRU_EVTOUT - 2)
    \/ pru_raise
    \/ pru_status(OLD_MESSAGE)

SpecShared == Init /\ [][NextShared]_vars

(* Writes in one context under the interrupt controller's delivery rule: the
   irq of a host event reaches pruss_handler when the event is enabled and
   pending. The firmware answers a status byte 0xFF by raising its event and,
   in master mode, retiring the status byte to 0x55; the scheduler runs a
   context that is inside write(). *)
pru_done ==
    /\ shram[STATUS_OFFSET] = MESSAGE_TO_SEND
    /\ PRU_EVTOUT \notin pend
    /\ pend' = pend \cup {PRU_EVTOUT}
    /\ shram' = IF shram[MODE_OFFSET] = CharM
                THEN [shram EXCEPT ![STATUS_OFFSET] = OLD_MESSAGE]
                ELSE shram
    /\ UNCHANGED <<sessionVars, done, hier, ctxVars, hlast, delivered, woken,
                   message, gpio>>

Deliver ==
    /\ PRU_EVTOUT \in hier
    /\ PRU_EVTOUT \in pend
    /\ Interrupt(PRU_EVTOUT - 2)

\* the steps of a write() that has been entered
WriteContinue(t) ==
    \/ write_copy(t)
    \/ write_status(t)
    \/ write_wait(t)
    \/ write_secr(t)
    \/ write_hieisr(t)
    \/ write_mode(t)
    \/ write_poll(t)

NextLive ==
    \/ \E c \in Callers : dev_open(c)
    \/ \E c \in Callers : dev_release(c)
    \/ \E t \in Foreground : dev_write(t)
    \/ \E t \in Foreground : SetMode(t)
    \/ \E t \in Foreground : sys_return(t)
    \/ Deliver
    \/ pru_done

LiveFair ==
    /\ WF_vars(Deliver)
    /\ WF_vars(pru_done)
    /\ \A t \in Foreground : WF_vars(WriteContinue(t))

SpecLive == Init /\ [][NextLive]_vars /\ LiveFair

(* ------------------------------- claims ------------------------------- *)
OpenSessions == {c \in Callers : sess[c] = "open"}
InWrite(t) == op[t] = "write"
Returned(t, o) == pc[t] = "done" /\ op[t] = o
\* context t is inside a transaction
InProgress(t) == pc[t] \notin {"idle", "done"}
\* context t enters and completes a control command o in this step
ControlStep(t, o) == pc[t] = "idle" /\ pc'[t] = "done" /\ op'[t] = o

\* C1: at most one session is open in every reachable state; dev_open never
\* blocks, returns 0 exactly when no session is open and -EBUSY otherwise.
C1_SessionExclusive ==
    /\ [](Cardinality(OpenSessions) <= 1 /\ (locked <=> OpenSessions # {}))
    /\ [](\A c \in Callers : ENABLED dev_open(c))
    /\ [][\A c \in Callers : dev_open(c) =>
            /\ (openRet' = 0) <=> (OpenSessions = {})
            /\ (openRet' = -EBUSY) <=> (OpenSessions # {})
            /\ (openRet' = 0) => sess'[c] = "open"
            /\ (openRet' # 0) => sess' = sess]_vars

\* C1 witness: a session is open and a further dev_open has failed with -EBUSY
C1_Witness == OpenSessions # {} /\ openRet = -EBUSY

\* C2 (as claimed): no two transactions are in progress at the same time, even
\* when several contexts share the open file.
C2_TotalOrder == Cardinality({t \in Ctx : InProgress(t)}) <= 1

\* the frame of payload b as the claim lays it out: length at 0x64, bytes from
\* 0x64 + 4, then status
C3_Frame(b) ==
    << <<100, Len(b) % 256>>, <<101, (Len(b) \div 256) % 256>>,
       <<102, (Len(b) \div 65536) % 256>>, <<103, (Len(b) \div 16777216) % 256>> >>
    \o [i \in 1 .. Len(b) |-> <<103 + i, b[i]>>]
    \o << <<1, 255>> >>

\* C3: a write() that has returned stored exactly the 4-byte length at 0x64, the
\* payload bytes after it in order, then status = 0xFF, nothing else, and
\* returned the length.
C3_WriteFrame ==
    \A t \in Ctx : Returned(t, "write") =>
        /\ ret[t] = Len(buf[t])
        /\ wlog[t] = C3_Frame(buf[t])

\* C3 witness: a write of the longest payload has returned
C3_Witness == \E t \in Ctx : Returned(t, "write") /\ Len(buf[t]) = MaxLen

\* C4: when the mode byte read after the wake is 'M', write() returns only on
\* reading status 0x55; otherwise it returns at once, without reading status.
C4_MasterPoll ==
    /\ [](\A t \in Ctx : Returned(t, "write") =>
            IF rdMode[t] = 77 THEN rdStatus[t] = 85 ELSE rdStatus[t] = 0)
    /\ [][\A t \in Ctx :
            /\ (pc[t] = "mode" /\ pc'[t] # "mode") =>
                  IF shram[25] = 77 THEN pc'[t] = "poll"
                  ELSE pc'[t] = "done" /\ ret'[t] = Len(buf[t])
            /\ (pc[t] = "poll" /\ pc'[t] # "poll") =>
                  shram[1] = 85 /\ pc'[t] = "done" /\ ret'[t] = Len(buf[t])]_vars

\* C4 witness: a write in master mode has returned after reading status 0x55
C4_Witness == \E t \in Ctx : Returned(t, "write") /\ rdMode[t] = 77 /\ rdStatus[t] = 85

\* C5 (as claimed): whenever a write() has returned, the designated event line,
\* the one the handler disabled, is enabled again.
C5_Rearmed == \A t \in Ctx : Returned(t, "write") => PRU_EVTOUT \in hier

\* C6: an accepted interrupt disables the line of its event, and releases the
\* completion if and only if its intr_bit is 3.
C6_HandlerAccepts ==
    [][\A cnt \in 0 .. 7 : (IrqInvoke(cnt) /\ hlast'.res = "IRQ_HANDLED") =>
          /\ (cnt + 2) \notin hier'
          /\ hier' = hier \ {cnt + 2}
          /\ (cnt + 2 = 3) => (done' = done + 1 /\ delivered')
          /\ (cnt + 2 # 3) => (done' = done /\ delivered' = delivered)]_vars

\* C6 witness: the handler accepted the designated event
C6_Witness ==
    hlast = [evt |-> 3, res |-> "IRQ_HANDLED"] /\ done > 0 /\ 3 \notin hier

\* C7: an interrupt whose event is neither enabled nor pending is not ours and
\* changes nothing; an enabled or a pending event is never not ours.
C7_NotOurs ==
    [][\A cnt \in 0 .. 7 : IrqInvoke(cnt) =>
          IF (cnt + 2) \notin hier /\ (cnt + 2) \notin pend
          THEN /\ hlast'.res = "IRQ_NONE"
               /\ UNCHANGED <<done, hier, pend, delivered, shram>>
          ELSE hlast'.res = "IRQ_HANDLED"]_vars

\* C7 witness: the handler ran for an event neither enabled nor pending
C7_Witness ==
    /\ hlast.res = "IRQ_NONE"
    /\ hlast.evt \notin hier
    /\ hlast.evt \notin pend

\* C8: a write() gets past its wait only after the handler released the
\* completion in this session; while it waits the session stays open and every
\* dev_open fails with -EBUSY.
C8_NoTimeout ==
    /\ [](\A t \in Ctx :
            /\ (InWrite(t) /\ pc[t] \in {"secr", "hieisr", "mode", "poll", "done"})
                  => delivered
            /\ (InWrite(t) /\ pc[t] = "wait") => (locked /\ OpenSessions # {}))
    /\ [][\A t \in Ctx : \A c \in Callers :
            /\ (pc[t] = "wait" /\ ~delivered') => pc'[t] = "wait"
            /\ (pc[t] = "wait" /\ dev_open(c)) => (openRet' = -EBUSY /\ sess' = sess)]_vars

\* C8 witness: a write waits, no completion was released, a dev_open has failed
C8_Witness ==
    \E t \in Ctx : InWrite(t) /\ pc[t] = "wait" /\ ~delivered /\ done = 0
                   /\ openRet = -EBUSY

\* C9: SetBaudRate with a rate outside the supported set fails and writes nothing.
C9_UnsupportedRate ==
    [][\A t \in Ctx :
          (ControlStep(t, "PRUSS_BAUDRATE")
             /\ arg'[t] \notin {6, 10, 12, 9600, 14400, 19200, 38400, 57600, 115200})
          => (ret'[t] = -EINVAL /\ shram' = shram /\ wlog'[t] = << >>)]_vars

\* C9 witness: an unsupported rate was refused on a region that holds a profile
C9_Witness ==
    \E t \in Ctx : /\ Returned(t, "PRUSS_BAUDRATE")
                   /\ arg[t] = 4800
                   /\ ret[t] = -EINVAL
                   /\ shram[2] # 0

\* C10: SetBaudRate with a supported rate returns 0 and writes six bytes: the
\* profile's config byte at 2, divisor at 3 and 4, and the byte time, below
\* 2^24, little-endian at 26..28; no other byte changes.
C10_SupportedRate ==
    [][\A t \in Ctx :
          (ControlStep(t, "PRUSS_BAUDRATE")
             /\ arg'[t] \in {6, 10, 12, 9600, 14400, 19200, 38400, 57600, 115200})
          => LET pr == BaudProfile(arg'[t]) IN
             /\ ret'[t] = 0
             /\ pr.ok
             /\ pr.one_byte_length_ns < 2 ^ 24
             /\ shram'[2] = pr.brgconfig
             /\ shram'[3] = pr.div_lsb
             /\ shram'[4] = pr.div_msb
             /\ shram'[26] + 256 * shram'[27] + 65536 * shram'[28]
                  = pr.one_byte_length_ns
             /\ \A o \in Offsets \ {2, 3, 4, 26, 27, 28} : shram'[o] = shram[o]
             /\ [i \in 1 .. Len(wlog'[t]) |-> wlog'[t][i][1]]
                  = <<2, 3, 4, 26, 27, 28>>]_vars

\* C10 witness: 9600 baud was configured: byte time 1041666 = 0x0FE502
C10_Witness ==
    \E t \in Ctx : /\ Returned(t, "PRUSS_BAUDRATE")
                   /\ arg[t] = 9600
                   /\ ret[t] = 0
                   /\ shram[26] = 2 /\ shram[27] = 229 /\ shram[28] = 15

\* context t has stored a byte at offset o during its call
Wrote(t, o) == \E i \in 1 .. Len(wlog[t]) : wlog[t][i][1] = o

\* C11: SetMode('S'), also right after SetMode('M'), returns 0 and leaves mode
\* 'S' and status 0x55; SetMode('M') returns 0, leaves mode 'M' and does not
\* write the status byte; SetMode of any other value returns -EINVAL and
\* writes nothing.
C11_SetMode ==
    [][\A t \in Ctx :
          ControlStep(t, "PRUSS_MODE")
          => /\ arg'[t] = CharS
                => /\ ret'[t] = 0
                   /\ shram'[MODE_OFFSET] = CharS
                   /\ shram'[STATUS_OFFSET] = OLD_MESSAGE
             /\ arg'[t] = CharM
                => /\ ret'[t] = 0
                   /\ shram'[MODE_OFFSET] = CharM
                   /\ shram'[STATUS_OFFSET] = shram[STATUS_OFFSET]
                   /\ \A i \in 1 .. Len(wlog'[t]) : wlog'[t][i][1] # STATUS_OFFSET
             /\ arg'[t] \notin {CharM, CharS}
                => /\ ret'[t] = -EINVAL
                   /\ shram' = shram
                   /\ wlog'[t] = << >>]_vars

\* C11 witness: SetMode('S') has returned 0 and the region holds 'S' and 0x55
C11_Witness ==
    \E t \in Ctx : /\ Returned(t, "PRUSS_MODE")
                   /\ arg[t] = CharS
                   /\ ret[t] = 0
                   /\ shram[MODE_OFFSET] = CharS
                   /\ shram[STATUS_OFFSET] = OLD_MESSAGE

\* C12: __dev_set_sync_stop returns -EINVAL and writes nothing when the mode
\* byte is not 'M', and returns 0 and writes 0 at offset 5 when it is 'M';
\* so SetMode('M') leaves the stop byte 0 and SetMode('S') does not write it.
C12_SyncStop ==
    /\ [](LET r == dev_set_sync_stop(shram) IN
            IF shram[MODE_OFFSET] = CharM
            THEN r.ret = 0 /\ r.ws = << <<5, 0>> >>
            ELSE r.ret = -EINVAL /\ r.ws = << >>)
    /\ [][\A t \in Ctx :
            ControlStep(t, "PRUSS_MODE")
            => /\ arg'[t] = CharM
                  => shram'[5] = 0 /\ wlog'[t] = << <<MODE_OFFSET, CharM>>, <<5, 0>> >>
               /\ arg'[t] = CharS
                  => /\ shram'[5] = shram[5]
                     /\ \A i \in 1 .. Len(wlog'[t]) : wlog'[t][i][1] # 5]_vars

\* C12 witness: SetMode('S') has returned and the stop byte still holds the
\* firmware's 1
C12_Witness ==
    \E t \in Ctx : /\ Returned(t, "PRUSS_MODE")
                   /\ arg[t] = CharS
                   /\ shram[MODE_OFFSET] = CharS
                   /\ shram[5] = 1

\* C13: SetMode never returns 0 when the __dev_set_sync_stop it called has
\* returned an error.
C13_StopFailureReturned ==
    [][\A t \in Ctx :
          (ControlStep(t, "PRUSS_MODE") /\ arg'[t] \in {CharM, CharS})
          => LET seen == Apply(shram, iowrite8(MODE_OFFSET, arg'[t])) IN
             dev_set_sync_stop(seen).ret # 0 => ret'[t] # 0]_vars

\* context t enters and completes read() in this step
ReadStep(t) == pc[t] = "idle" /\ pc'[t] = "done" /\ op'[t] = "read"

\* C14 as stated: read() hands the caller the bytes of the region at SHRAM_READ_OFFSET,
\* in order: byte i of the result is the byte at SHRAM_READ_OFFSET + i; it
\* stores nothing in the shared RAM and completes in one step.
C14_ReadWindow ==
    [][\A t \in Ctx :
          ReadStep(t)
          => /\ \A i \in 0 .. (WinLen - 1) : message'[i] = shram[SHRAM_READ_OFFSET + i]
             /\ shram' = shram
             /\ wlog'[t] = << >>]_vars

\* C14, amended: read() hands the caller the SZ_12K bytes of the shared RAM
\* from its base, in order: byte i of the result is the byte at offset i, so
\* the header and the outbound buffer come first and the byte at
\* SHRAM_READ_OFFSET is byte SHRAM_READ_OFFSET of the result; read() stores
\* nothing in the shared RAM, completes in one step and returns 0.
C14_ReadSharedRam ==
    [][\A t \in Ctx :
          ReadStep(t)
          => /\ \A i \in MsgIdx : message'[i] = shram[i]
             /\ MsgIdx \subseteq 0 .. (SZ_12K - 1)
             /\ ret'[t] = 0
             /\ shram' = shram
             /\ wlog'[t] = << >>]_vars

\* C14 witness: read() has returned; byte 1 of the result is the status byte
\* 0x55 and byte 0x1800 is the byte the firmware stored at 0x1800
C14_Witness ==
    \E t \in Ctx : /\ Returned(t, "read")
                   /\ message[1] = 85
                   /\ message[6144] = 165
                   /\ shram[6144] = 165
                   /\ shram[6145] = 0

\* C15: GetHardwareAddress stores addr, the sum of 2^i over the pins i = 0..4
\* that read high, at offset 24, stores nothing else, and returns addr.
C15_HardwareAddress ==
    [][\A t \in Ctx :
          ControlStep(t, "PRUSS_GET_HW_ADDRESS")
          => LET addr == gpio[1] + 2 * gpio[2] + 4 * gpio[3] + 8 * gpio[4] + 16 * gpio[5] IN
             /\ addr \in 0 .. 31
             /\ wlog'[t] = << <<24, addr>> >>
             /\ shram' = [shram EXCEPT ![24] = addr]
             /\ ret'[t] = addr]_vars

\* C16: SetTimeout(n) returns 0 and stores v = (n * 66600) mod 2^32 at
\* offsets 6..9, byte k being (v >> 8k) & 0xFF, and no other byte.
C16_TimeoutLittleEndian ==
    [][\A t \in Ctx :
          ControlStep(t, "PRUSS_TIMEOUT")
          => LET v == Mul32(arg'[t], 66600) IN
             /\ ret'[t] = 0
             /\ shram'[6] = v.lo % 256
             /\ shram'[7] = v.lo \div 256
             /\ shram'[8] = v.hi % 256
             /\ shram'[9] = v.hi \div 256
             /\ \A o \in Offsets \ (6 .. 9) : shram'[o] = shram[o]]_vars

\* C17 as stated: Clean leaves every byte of the shared RAM as it was.
C17_SharedRamUntouched ==
    [][\A t \in Ctx : ControlStep(t, "PRUSS_CLEAN") => shram' = shram]_vars

\* C17: Clean returns 0 and stores 0 in the 100 bytes at offsets 0..99 of the
\* shared RAM, in ascending order: the status, baud, stop, timeout, address,
\* mode, byte-length, sync-step and counter fields become 0; the outbound
\* buffer from offset 100 and every byte above it keep their values.
C17_CleanHeader ==
    [][\A t \in Ctx :
          ControlStep(t, "PRUSS_CLEAN")
          => /\ ret'[t] = 0
             /\ \A o \in Offsets : shram'[o] = IF o < 100 THEN 0 ELSE shram[o]
             /\ wlog'[t] = [i \in 1 .. 100 |-> <<i - 1, 0>>]]_vars

\* C17 witness: Clean has returned, the header is 0 and the outbound buffer
\* still holds the frame of an earlier write
C17_Witness ==
    \E t \in Ctx : /\ Returned(t, "PRUSS_CLEAN")
                   /\ \A o \in 0 .. 99 : shram[o] = 0
                   /\ shram[100] = 2
                   /\ shram[104] # 0

\* C18: a dev_open that returns 0 leaves the completion counter at 0 and a
\* dev_open that returns -EBUSY leaves it as it was; a write() gets past its
\* wait only on a completion the handler released after the last successful
\* dev_open, never on one released before it.
C18_CompletionReset ==
    /\ [][\A c \in Callers :
            dev_open(c) => IF openRet' = 0 THEN done' = 0 ELSE done' = done]_vars
    /\ [][\A t \in Ctx :
            (pc[t] = "wait" /\ pc'[t] # "wait") => (delivered /\ done > 0)]_vars

\* C18 witness: the handler has disabled PRU_EVTOUT, so it released a completion,
\* in an earlier session; the write of this session finds the counter at 0
\* and waits
C18_Witness ==
    \E t \in Ctx : /\ InWrite(t)
                   /\ pc[t] = "wait"
                   /\ PRU_EVTOUT \notin hier
                   /\ ~delivered
                   /\ done = 0

\* the outbound buffer holds the length and the payload bytes of b
FrameInMemory(b) ==
    \A i \in 1 .. (Len(C3_Frame(b)) - 1) : shram[C3_Frame(b)[i][1]] = C3_Frame(b)[i][2]

\* C19: a write() stores status = 0xFF after the four length bytes and every
\* payload byte: once it has stored the status byte its writes are the whole
\* frame with the status last, it has stored it by the time it waits, and
\* while the status byte reads 0xFF the outbound buffer holds the length and
\* the payload of that write.
C19_FrameBeforeStatus ==
    \A t \in Ctx : InWrite(t) =>
        /\ Wrote(t, STATUS_OFFSET) <=> pc[t] \notin {"copy", "status"}
        /\ Wrote(t, STATUS_OFFSET)
              => /\ wlog[t] = C3_Frame(buf[t])
                 /\ shram[STATUS_OFFSET] = MESSAGE_TO_SEND => FrameInMemory(buf[t])
        /\ pc[t] = "status"
              => wlog[t] = SubSeq(C3_Frame(buf[t]), 1, Len(C3_Frame(buf[t])) - 1)

\* C20 as stated: a write() gets past its wait only when the handler has released a
\* completion for PRU_EVTOUT after that write stored its status byte 0xFF; a
\* completion released earlier does not let it pass.
C20_OwnInterrupt ==
    [][\A t \in Ctx : (pc[t] = "wait" /\ pc'[t] = "secr") => woken[t]]_vars

\* C20, amended: within a session the completion is a counter. A successful dev_open sets it
\* to 0, each handler run for PRU_EVTOUT adds one, each write() that gets past
\* its wait takes exactly one, and nothing else changes it; a write() passes
\* only when the counter is above 0, on a completion released since the
\* dev_open. A completion released before the write stored its status byte is
\* kept and lets that write pass its wait at once.
C20_CompletionCounted ==
    /\ [][done' # done
            => \/ /\ done' = done + 1
                  /\ delivered'
                  /\ PRU_EVTOUT \notin hier'
                  /\ UNCHANGED <<sessionVars, pc>>
               \/ /\ done' = done - 1
                  /\ \E t \in Ctx : pc[t] = "wait" /\ pc'[t] = "secr"
               \/ /\ done' = 0
                  /\ openRet' = 0
                  /\ \E c \in Callers : sess[c] = "closed" /\ sess'[c] = "open"]_vars
    /\ [][\A t \in Ctx :
            (pc[t] = "wait" /\ pc'[t] # "wait")
            => (pc'[t] = "secr" /\ done > 0 /\ done' = done - 1 /\ delivered)]_vars
    /\ [](\A t \in Ctx :
            (pc[t] = "wait" /\ done > 0) => ENABLED write_wait(t))

\* C20 witness: a write has stored its status byte and waits; the handler has
\* not run since, and a completion released earlier in the session is there
\* for it to take
C20_Witness ==
    \E t \in Ctx : /\ InWrite(t)
                   /\ pc[t] = "wait"
                   /\ shram[STATUS_OFFSET] = MESSAGE_TO_SEND
                   /\ ~woken[t]
                   /\ done > 0

\* C21: when the firmware keeps raising its event and retiring the status
\* byte, and an enabled pending event is delivered to the handler, every
\* write() that has been entered returns, the later ones of a session as well
\* as the first.
C21_WritesReturn ==
    \A t \in Ctx : [](InProgress(t) => <>(pc[t] = "done"))

\* C22: a completion the handler releases after a write() has stored its
\* status byte 0xFF and before the write() is past its wait is remembered in
\* the counter: the write() can pass its wait, and it does.
C22_NoLostWakeup ==
    /\ [](\A t \in Ctx : (pc[t] = "wait" /\ woken[t])
                            => (done > 0 /\ ENABLED write_wait(t)))
    /\ \A t \in Ctx : (pc[t] = "wait" /\ woken[t]) ~> (pc[t] = "secr")

\* C22 witness: the write() has stored 0xFF and has not passed its wait; the
\* handler has run since and its completion is in the counter
C22_Witness ==
    \E t \in Ctx : /\ InWrite(t)
                   /\ pc[t] = "wait"
                   /\ Wrote(t, STATUS_OFFSET)
                   /\ woken[t]
                   /\ done = 1

\* C23: for every rate r of 9600, 14400, 19200, 38400, 57600 and 115200 the
\* byte time v that SetBaudRate(r) stores at 26..28 differs from 10^10 / r by
\* less than 1, that is |v * (r / 100) - 10^8| < r / 100, and every faster rate
\* of the six has a smaller byte time.
C23_ByteTime ==
    [][\A t \in Ctx :
          (ControlStep(t, "PRUSS_BAUDRATE")
             /\ arg'[t] \in {9600, 14400, 19200, 38400, 57600, 115200})
          => LET r == arg'[t]
                 q == r \div 100
                 v == shram'[26] + 256 * shram'[27] + 65536 * shram'[28]
                 e == v * q - 100000000
             IN /\ r = 100 * q
                /\ e < q
                /\ -e < q
                /\ \A r2 \in {9600, 14400, 19200, 38400, 57600, 115200} :
                      r2 > r => BaudProfile(r2).one_byte_length_ns < v]_vars

====
